---- MODULE Spec2Model ----
(***************************************************************************)
(* Model of src/webhook/vote.rs: decoding of a vote webhook payload into   *)
(* a Vote (serde derive plus the custom field deserializers), and the      *)
(* IncomingVote::authenticate gate.                                        *)
(*                                                                         *)
(* A Rust String / &str is modelled as the sequence of its UTF-8 bytes     *)
(* (integers 0..255), so that splitting, percent-decoding, UTF-8           *)
(* validation and string equality are computed as the code computes them.  *)
(***************************************************************************)
EXTENDS Integers, Sequences, FiniteSets, TLC

VARIABLES header, password, body, pc, decoded, req, out

vars == <<header, password, body, pc, decoded, req, out>>

(***************************************************************************)
(* Bounds of the model.                                                    *)
(***************************************************************************)
\* number of '&'-separated candidates in the enumerated query strings
MaxCands == 2
\* length of the enumerated id strings
MaxIdLen == 2
\* length of the enumerated credential strings
MaxCredLen == 2
\* number of clones of one IncomingVote (derive(Clone))
MaxClones == 1

(***************************************************************************)
(* Bytes used by the code and by the inputs.                               *)
(***************************************************************************)
Ch == [amp |-> 38, eq |-> 61, pct |-> 37, sp |-> 32,
       a |-> 97, b |-> 98, c |-> 99, x |-> 120, A |-> 65,
       d0 |-> 48, d1 |-> 49, d2 |-> 50, d3 |-> 51, d7 |-> 55, f |-> 102]

\* "test"
StrTest == <<116, 101, 115, 116>>

(***************************************************************************)
(* str::split(char): the pieces between the separators, always at least    *)
(* one piece (the whole string when the separator does not occur).         *)
(***************************************************************************)
RECURSIVE SplitFrom(_, _, _, _)
SplitFrom(s, sep, i, cur) ==
  IF i > Len(s) THEN <<cur>>
  ELSE IF s[i] = sep THEN <<cur>> \o SplitFrom(s, sep, i + 1, <<>>)
  ELSE SplitFrom(s, sep, i + 1, Append(cur, s[i]))

Split(s, sep) == SplitFrom(s, sep, 1, <<>>)

(***************************************************************************)
(* urlencoding::decode: decode_binary, then String::from_utf8.             *)
(***************************************************************************)
IsHexDigit(ch) ==
  \/ ch \in 48..57
  \/ ch \in 65..70
  \/ ch \in 97..102

FromHexDigit(ch) ==
  IF ch \in 48..57 THEN ch - 48
  ELSE IF ch \in 65..70 THEN ch - 55
  ELSE ch - 87

\* a '%' followed by two hex digits is one byte; any other '%' stays as it is
RECURSIVE DecodeBinaryFrom(_, _)
DecodeBinaryFrom(s, i) ==
  IF i > Len(s) THEN <<>>
  ELSE IF /\ s[i] = Ch.pct
          /\ i + 2 <= Len(s)
          /\ IsHexDigit(s[i + 1])
          /\ IsHexDigit(s[i + 2])
       THEN <<FromHexDigit(s[i + 1]) * 16 + FromHexDigit(s[i + 2])>>
              \o DecodeBinaryFrom(s, i + 3)
       ELSE <<s[i]>> \o DecodeBinaryFrom(s, i + 1)

DecodeBinary(s) == DecodeBinaryFrom(s, 1)

IsCont(bs, i) == i <= Len(bs) /\ bs[i] \in 128..191

\* the number of bytes of the well-formed UTF-8 sequence starting at i, or 0
Utf8Width(bs, i) ==
  LET b0 == bs[i] IN
  IF b0 < 128 THEN 1
  ELSE IF b0 \in 194..223 THEN (IF IsCont(bs, i + 1) THEN 2 ELSE 0)
  ELSE IF b0 = 224
       THEN (IF i + 1 <= Len(bs) /\ bs[i + 1] \in 160..191 /\ IsCont(bs, i + 2)
             THEN 3 ELSE 0)
  ELSE IF b0 \in 225..236 \/ b0 \in 238..239
       THEN (IF IsCont(bs, i + 1) /\ IsCont(bs, i + 2) THEN 3 ELSE 0)
  ELSE IF b0 = 237
       THEN (IF i + 1 <= Len(bs) /\ bs[i + 1] \in 128..159 /\ IsCont(bs, i + 2)
             THEN 3 ELSE 0)
  ELSE IF b0 = 240
       THEN (IF /\ i + 1 <= Len(bs) /\ bs[i + 1] \in 144..191
                /\ IsCont(bs, i + 2) /\ IsCont(bs, i + 3)
             THEN 4 ELSE 0)
  ELSE IF b0 \in 241..243
       THEN (IF IsCont(bs, i + 1) /\ IsCont(bs, i + 2) /\ IsCont(bs, i + 3)
             THEN 4 ELSE 0)
  ELSE IF b0 = 244
       THEN (IF /\ i + 1 <= Len(bs) /\ bs[i + 1] \in 128..143
                /\ IsCont(bs, i + 2) /\ IsCont(bs, i + 3)
             THEN 4 ELSE 0)
  ELSE 0

RECURSIVE IsUtf8From(_, _)
IsUtf8From(bs, i) ==
  IF i > Len(bs) THEN TRUE
  ELSE LET w == Utf8Width(bs, i) IN
       IF w = 0 THEN FALSE ELSE IsUtf8From(bs, i + w)

IsUtf8(bs) == IsUtf8From(bs, 1)

\* Result<Cow<str>, FromUtf8Error>
UrlDecode(v) ==
  LET bs == DecodeBinary(v) IN
  IF IsUtf8(bs) THEN [ok |-> TRUE, s |-> bs] ELSE [ok |-> FALSE, s |-> <<>>]

(***************************************************************************)
(* HashMap<String, String> as a function from keys to values.              *)
(***************************************************************************)
EmptyMap == [k \in {} |-> <<>>]

\* entry(k).or_insert(v): an entry already present is kept
MapInsertIfAbsent(m, k, v) ==
  [kk \in (DOMAIN m) \cup {k} |-> IF kk \in DOMAIN m THEN m[kk] ELSE v]

MapInsert(m, k, v) ==
  [kk \in (DOMAIN m) \cup {k} |-> IF kk = k THEN v ELSE m[kk]]

(***************************************************************************)
(* deserialize_query_string, the closure over the decoded String.          *)
(***************************************************************************)
\* (it.next(), it.next()) of pair.split('='): the key and the value taken
CandKey(parts) == parts[1]

CandValue(parts) == parts[2]

\* a value that fails percent-decoding is stored as it was received
QueryStepKeepRaw(output, pair) ==
  LET it == Split(pair, Ch.eq) IN
  IF Len(it) >= 2
  THEN LET v == UrlDecode(CandValue(it)) IN
       MapInsert(output, CandKey(it), IF v.ok THEN v.s ELSE CandValue(it))
  ELSE output

\* a candidate without '=' is stored as a key with the empty value
QueryStepBareKey(output, pair) ==
  LET it == Split(pair, Ch.eq) IN
  IF Len(it) >= 2
  THEN LET v == UrlDecode(CandValue(it)) IN
       IF v.ok THEN MapInsert(output, CandKey(it), v.s) ELSE output
  ELSE MapInsert(output, CandKey(it), <<>>)

\* one iteration of the for loop on one candidate
QueryStep(output, pair) ==
  LET it == Split(pair, Ch.eq) IN
  IF Len(it) >= 2
  THEN LET v == UrlDecode(CandValue(it)) IN
       IF v.ok THEN MapInsert(output, CandKey(it), v.s) ELSE output
  ELSE output

RECURSIVE QueryFold(_, _, _)
QueryFold(output, pairs, i) ==
  IF i > Len(pairs) THEN output
  ELSE QueryFold(QueryStep(output, pairs[i]), pairs, i + 1)

ParseQuery(s) == QueryFold(EmptyMap, Split(s, Ch.amp), 1)

(***************************************************************************)
(* Wire values of the payload's fields (a JSON object): a field is absent, *)
(* a string, a boolean or null.                                            *)
(***************************************************************************)
Absent == [kind |-> "absent", s |-> <<>>, b |-> FALSE]

Null == [kind |-> "null", s |-> <<>>, b |-> FALSE]

Str(s) == [kind |-> "str", s |-> s, b |-> FALSE]

Bool(b) == [kind |-> "bool", s |-> <<>>, b |-> b]

\* Result<T, D::Error>
Ok(v) == [ok |-> TRUE, v |-> v]

Err(v) == [ok |-> FALSE, v |-> v]

(***************************************************************************)
(* snowflake::deserialize: the string value parsed as a u64. The value is  *)
(* kept as its canonical decimal digits (no leading zeros), which is exact *)
(* for all 64 bits.                                                        *)
(***************************************************************************)
\* 18446744073709551615
U64MaxDigits ==
  <<49, 56, 52, 52, 54, 55, 52, 52, 48, 55, 51, 55, 48, 57, 53, 53, 49, 54, 49, 53>>

IsDigit(ch) == ch \in 48..57

RECURSIVE StripZeros(_)
StripZeros(s) ==
  IF Len(s) > 1 /\ s[1] = Ch.d0 THEN StripZeros(Tail(s)) ELSE s

RECURSIVE DigitsLeq(_, _)
DigitsLeq(s, t) ==
  IF Len(s) # Len(t) THEN Len(s) < Len(t)
  ELSE IF s = <<>> THEN TRUE
  ELSE IF s[1] # t[1] THEN s[1] < t[1]
  ELSE DigitsLeq(Tail(s), Tail(t))

ParseU64(s) ==
  IF s = <<>> \/ \E i \in 1..Len(s) : ~IsDigit(s[i]) THEN Err(<<>>)
  ELSE LET n == StripZeros(s) IN
       IF DigitsLeq(n, U64MaxDigits) THEN Ok(n) ELSE Err(<<>>)

SnowflakeDeserialize(w) ==
  IF w.kind = "str" THEN ParseU64(w.s) ELSE Err(<<>>)

(***************************************************************************)
(* The fields of Vote, as serde's derive decodes them.                     *)
(***************************************************************************)
\* the alias "guild" left out
ReceiverValuesNoGuild(p) ==
  (IF p.receiver_id.kind # "absent" THEN <<p.receiver_id>> ELSE <<>>)
    \o (IF p.bot.kind # "absent" THEN <<p.bot>> ELSE <<>>)

\* receiver_id: the values given under the field's name or one of its aliases
ReceiverValues(p) ==
  (IF p.receiver_id.kind # "absent" THEN <<p.receiver_id>> ELSE <<>>)
    \o (IF p.bot.kind # "absent" THEN <<p.bot>> ELSE <<>>)
    \o (IF p.guild.kind # "absent" THEN <<p.guild>> ELSE <<>>)

\* an id that does not parse becomes 0 instead of an error
DeserializeReceiverIdOrZero(p) ==
  LET vs == ReceiverValues(p) IN
  IF Len(vs) = 1
  THEN (IF SnowflakeDeserialize(vs[1]).ok THEN SnowflakeDeserialize(vs[1])
        ELSE Ok(<<Ch.d0>>))
  ELSE Err(<<>>)

\* a missing field and a duplicate field are errors
DeserializeReceiverId(p) ==
  LET vs == ReceiverValues(p) IN
  IF Len(vs) = 1 THEN SnowflakeDeserialize(vs[1]) ELSE Err(<<>>)

DeserializeVoterId(p) ==
  IF p.user.kind = "absent" THEN Err(<<>>) ELSE SnowflakeDeserialize(p.user)

ToAsciiLowercase(s) ==
  [i \in 1..Len(s) |-> IF s[i] \in 65..90 THEN s[i] + 32 ELSE s[i]]

\* s.eq_ignore_ascii_case("test")
DeserializeIsTestIgnoreCase(w) ==
  IF w.kind = "str" THEN Ok(ToAsciiLowercase(w.s) = StrTest) ELSE Err(FALSE)

\* String::deserialize(deserializer).map(|s| s == "test")
DeserializeIsTestValue(w) ==
  IF w.kind = "str" THEN Ok(w.s = StrTest) ELSE Err(FALSE)

DeserializeIsTest(p) ==
  IF p.type.kind = "absent" THEN Err(FALSE) ELSE DeserializeIsTestValue(p.type)

\* the field without its serde default
DeserializeIsWeekendRequired(p) ==
  IF p.isWeekend.kind = "bool" THEN Ok(p.isWeekend.b) ELSE Err(FALSE)

\* #[serde(default, rename = "isWeekend")]
DeserializeIsWeekend(p) ==
  IF p.isWeekend.kind = "absent" THEN Ok(FALSE)
  ELSE IF p.isWeekend.kind = "bool" THEN Ok(p.isWeekend.b)
  ELSE Err(FALSE)

\* Ok(String::deserialize(deserializer).map(..).unwrap_or_default())
DeserializeQueryString(w) ==
  IF w.kind = "str" THEN Ok(ParseQuery(w.s)) ELSE Ok(EmptyMap)

\* #[serde(default, deserialize_with = "deserialize_query_string")]
DeserializeQuery(p) ==
  IF p.query.kind = "absent" THEN Ok(EmptyMap) ELSE DeserializeQueryString(p.query)

NoVote == [none |-> TRUE]

\* <Vote as Deserialize>::deserialize
DeserializeVote(p) ==
  LET r == DeserializeReceiverId(p)
      u == DeserializeVoterId(p)
      t == DeserializeIsTest(p)
      w == DeserializeIsWeekend(p)
      q == DeserializeQuery(p)
  IN IF r.ok /\ u.ok /\ t.ok /\ w.ok /\ q.ok
     THEN [ok |-> TRUE,
           vote |-> [receiver_id |-> r.v, voter_id |-> u.v, is_test |-> t.v,
                     is_weekend |-> w.v, query |-> q.v]]
     ELSE [ok |-> FALSE, vote |-> NoVote]

(***************************************************************************)
(* IncomingVote and its authenticate.                                      *)
(***************************************************************************)
None == [some |-> FALSE, vote |-> NoVote]

Some(v) == [some |-> TRUE, vote |-> v]

\* self.authorization.eq_ignore_ascii_case(password.as_ref())
StrEqIgnoreCase(a, p) == ToAsciiLowercase(a) = ToAsciiLowercase(p)

\* self.authorization == password.as_ref()
StrEq(a, p) == a = p

AuthenticateResult(r, p) ==
  IF StrEq(r.authorization, p) THEN Some(r.vote) ELSE None

\* authenticate takes self by value: the IncomingVote is moved into the call
Moved == [st |-> "moved", authorization |-> <<>>, vote |-> NoVote]

\* authenticate(&self, ..): the IncomingVote stays usable after the call
AfterAuthenticateBorrowed(r) == r

AfterAuthenticate(r) == Moved

NoReq == [st |-> "none", authorization |-> <<>>, vote |-> NoVote]

ReqIds == 1..(1 + MaxClones)

NotCalled == [calls |-> 0, password |-> <<>>, result |-> None]

(***************************************************************************)
(* Inputs: the requests the model is run on.                               *)
(***************************************************************************)
RECURSIVE StrsUpTo(_, _)
StrsUpTo(alphabet, n) ==
  IF n = 0 THEN {<<>>}
  ELSE LET shorter == StrsUpTo(alphabet, n - 1) IN
       shorter \cup {Append(s, ch) : s \in shorter, ch \in alphabet}

\* credentials over 'a', 'A' and ' ': equal, other case, trailing whitespace
Creds == StrsUpTo({Ch.a, Ch.A, Ch.sp}, MaxCredLen)

\* id strings over '7' and 'x'; "0", "07", u64::MAX and u64::MAX + 1
IdStrings ==
  StrsUpTo({Ch.d7, Ch.x}, MaxIdLen)
    \cup {<<Ch.d0>>, <<Ch.d0, Ch.d7>>, U64MaxDigits,
          [U64MaxDigits EXCEPT ![20] = 54]}

IdWire == {Absent, Null} \cup {Str(s) : s \in IdStrings}

\* "test", "Test", "TEST", "", "tes", "tests", "test ", "upvote"
TypeStrings ==
  {StrTest, <<84, 101, 115, 116>>, <<84, 69, 83, 84>>, <<>>, <<116, 101, 115>>,
   <<116, 101, 115, 116, 115>>, <<116, 101, 115, 116, 32>>,
   <<117, 112, 118, 111, 116, 101>>}

TypeWire == {Absent, Null} \cup {Str(s) : s \in TypeStrings}

WeekendWire == {Absent, Null, Bool(TRUE), Bool(FALSE)}

\* candidates of a query string: key, key=value, key=value=rest
QKeys == {<<Ch.a>>, <<Ch.x>>}

\* "", "1", "2", "%20", "%ff", "%2", "%c3%a9"
QValues ==
  {<<>>, <<Ch.d1>>, <<Ch.d2>>, <<Ch.pct, Ch.d2, Ch.d0>>, <<Ch.pct, Ch.f, Ch.f>>,
   <<Ch.pct, Ch.d2>>, <<Ch.pct, Ch.c, Ch.d3, Ch.pct, Ch.a, 57>>}

\* and "", "=", "=1"
QCandidates ==
  QKeys
    \cup {<<>>, <<Ch.eq>>, <<Ch.eq, Ch.d1>>}
    \cup {k \o <<Ch.eq>> \o v : k \in QKeys, v \in QValues}
    \cup {k \o <<Ch.eq>> \o v \o <<Ch.eq, Ch.d3>> :
            k \in QKeys, v \in {<<Ch.d1>>, <<Ch.pct, Ch.f, Ch.f>>}}

RECURSIVE QJoined(_)
QJoined(n) ==
  IF n = 1 THEN QCandidates
  ELSE LET fewer == QJoined(n - 1) IN
       fewer \cup {q \o <<Ch.amp>> \o cand : q \in fewer, cand \in QCandidates}

\* "a=1&b=hello%20world", "a=1&bogus&c=3", "x=1&x=2"
QExamples ==
  {<<97, 61, 49, 38, 98, 61, 104, 101, 108, 108, 111, 37, 50, 48, 119, 111, 114,
     108, 100>>,
   <<97, 61, 49, 38, 98, 111, 103, 117, 115, 38, 99, 61, 51>>,
   <<120, 61, 49, 38, 120, 61, 50>>}

QueryStrings == QJoined(MaxCands) \cup QExamples

Payload(rid, bot, guild, user, type, weekend, query) ==
  [receiver_id |-> rid, bot |-> bot, guild |-> guild, user |-> user,
   type |-> type, isWeekend |-> weekend, query |-> query]

\* payloads whose id fields vary
IdPayloads ==
  {Payload(rid, bot, guild, user, Str(StrTest), Absent, Absent) :
     rid \in {Absent, Str(<<Ch.d7>>)}, bot \in IdWire, guild \in IdWire,
     user \in IdWire}

\* payloads whose type, isWeekend and query fields vary
FlagPayloads ==
  {Payload(Absent, bot, guild, user, type, weekend, query) :
     bot \in {Absent, Str(<<Ch.d7>>), Str(<<Ch.x>>)},
     guild \in {Absent, Str(<<Ch.d7, Ch.d0>>)},
     user \in {Str(<<Ch.d1>>), Str(<<Ch.x>>)},
     type \in TypeWire, weekend \in WeekendWire,
     query \in {Absent, Null, Str(<<>>), Str(<<Ch.a, Ch.eq, Ch.d1>>)}}

\* payloads whose query string varies
QueryPayloads ==
  {Payload(Absent, Str(<<Ch.d7>>), Absent, Str(<<Ch.d1>>), Str(<<>>), Bool(TRUE),
           Str(q)) : q \in QueryStrings}

\* valid payloads for the requests whose credentials vary
AuthPayloads ==
  {Payload(Absent, Str(<<Ch.d7>>), Absent, Str(<<Ch.d1>>), Str(StrTest), Absent,
           Absent),
   Payload(Absent, Absent, Str(<<Ch.d7, Ch.d0>>), Str(<<Ch.d1>>), Str(<<>>),
           Bool(TRUE), Str(<<Ch.a, Ch.eq, Ch.d1>>))}

Init ==
  /\ \/ /\ header = <<Ch.a>>
        /\ password = <<Ch.a>>
        /\ body \in IdPayloads \cup FlagPayloads \cup QueryPayloads
     \/ /\ header \in Creds
        /\ password \in Creds
        /\ body \in AuthPayloads
  /\ pc = "received"
  /\ decoded = [ok |-> FALSE, vote |-> NoVote]
  /\ req = [i \in ReqIds |-> NoReq]
  /\ out = [i \in ReqIds |-> NotCalled]

(***************************************************************************)
(* Operations.                                                             *)
(***************************************************************************)
\* the body is decoded into a Vote, or the decode fails
Decode ==
  /\ pc = "received"
  /\ decoded' = DeserializeVote(body)
  /\ pc' = IF decoded'.ok THEN "decoded" ELSE "rejected"
  /\ UNCHANGED <<header, password, body, req, out>>

\* IncomingVote { authorization, vote }
Wrap ==
  /\ pc = "decoded"
  /\ req' = [req EXCEPT ![1] = [st |-> "live", authorization |-> header,
                                vote |-> decoded.vote]]
  /\ pc' = "wrapped"
  /\ UNCHANGED <<header, password, body, decoded, out>>

\* <IncomingVote as Clone>::clone
Clone(i, j) ==
  /\ req[i].st = "live"
  /\ req[j].st = "none"
  /\ req' = [req EXCEPT ![j] = req[i]]
  /\ UNCHANGED <<header, password, body, pc, decoded, out>>

\* IncomingVote::authenticate(self, password)
Authenticate(i) ==
  /\ req[i].st = "live"
  /\ out' = [out EXCEPT ![i] = [calls |-> out[i].calls + 1,
                                password |-> password,
                                result |-> AuthenticateResult(req[i], password)]]
  /\ req' = [req EXCEPT ![i] = AfterAuthenticate(req[i])]
  /\ UNCHANGED <<header, password, body, pc, decoded>>

Next ==
  \/ Decode
  \/ Wrap
  \/ \E i \in ReqIds, j \in ReqIds : Clone(i, j)
  \/ \E i \in ReqIds : Authenticate(i)

Spec == Init /\ [][Next]_vars

(***************************************************************************)
(* Vocabulary of the properties.                                           *)
(***************************************************************************)
HasEq(cand) == \E i \in 1..Len(cand) : cand[i] = Ch.eq

\* the text before the first '=' (all of it when there is none)
UpToEq(s) ==
  IF HasEq(s)
  THEN SubSeq(s, 1, (CHOOSE i \in 1..Len(s) :
                       s[i] = Ch.eq /\ \A j \in 1..(i - 1) : s[j] # Ch.eq) - 1)
  ELSE s

\* the text after the first '='
AfterEq(s) == SubSeq(s, Len(UpToEq(s)) + 2, Len(s))

KeyOf(cand) == UpToEq(cand)

\* the text between the first '=' and the second
TakenValue(cand) == UpToEq(AfterEq(cand))

FailsDecoding(cand) == HasEq(cand) /\ ~UrlDecode(TakenValue(cand)).ok

NotFailingDecoding(cand) == ~FailsDecoding(cand)

Accepted(cand) == HasEq(cand) /\ UrlDecode(TakenValue(cand)).ok

RECURSIVE JoinAmp(_)
JoinAmp(cs) ==
  IF cs = <<>> THEN <<>>
  ELSE IF Len(cs) = 1 THEN cs[1]
  ELSE cs[1] \o <<Ch.amp>> \o JoinAmp(Tail(cs))

\* the '&'-separated candidates of the payload's query string
Cands == Split(body.query.s, Ch.amp)

OtherFieldsValid ==
  /\ DeserializeReceiverId(body).ok
  /\ DeserializeVoterId(body).ok
  /\ DeserializeIsWeekend(body).ok

\* Decode has returned: its result is in decoded (no later step changes it)
DecodeReturned == pc \in {"decoded", "rejected"}

QueryDecoded == DecodeReturned /\ decoded.ok /\ body.query.kind = "str"

Unparseable(w) == w.kind = "str" /\ ~ParseU64(w.s).ok

Numeric(w) == w.kind = "str" /\ ParseU64(w.s).ok

(***************************************************************************)
(* Properties.                                                             *)
(***************************************************************************)
\* C1: authenticate(p) returns the wrapped vote, all five fields unchanged,
\* when the authorization string is exactly equal to p, and returns nothing
\* for every p that differs from it in any way (case, trailing whitespace).
C1_AuthenticateExactEquality ==
  \A i \in ReqIds :
    out[i].calls > 0 =>
      /\ header = out[i].password => out[i].result = Some(decoded.vote)
      /\ header # out[i].password => out[i].result = None

\* C1 witness: a wrong-case password was refused and the vote not returned
C1_Witness ==
  /\ out[1].calls = 1
  /\ header = <<Ch.a, Ch.A>>
  /\ out[1].password = <<Ch.a, Ch.a>>
  /\ out[1].result = None

\* C2: a receiver (bot, guild) or voter (user) field that is present as a
\* string which is no unsigned 64-bit integer makes the decode fail, with no
\* Vote produced, whatever the other fields hold.
C2_InvalidIdFailsAtomically ==
  (/\ DecodeReturned
   /\ Unparseable(body.bot) \/ Unparseable(body.guild) \/ Unparseable(body.user))
    => decoded = [ok |-> FALSE, vote |-> NoVote]

\* C2 witness: bot = "x" with a valid user was decoded, and rejected
C2_Witness ==
  /\ pc = "rejected"
  /\ body.bot = Str(<<Ch.x>>)
  /\ body.guild = Absent
  /\ Numeric(body.user)
  /\ decoded.vote = NoVote

\* C3: with exactly one of the aliases bot and guild present, as a numeric
\* string, in an otherwise valid payload, the decode succeeds and receiver_id
\* is the numeric value of the alias present, whichever of the two it is.
C3_ReceiverAlias ==
  (/\ DecodeReturned
   /\ body.receiver_id = Absent
   /\ DeserializeVoterId(body).ok
   /\ DeserializeIsTest(body).ok
   /\ DeserializeIsWeekend(body).ok)
    =>
      /\ (Numeric(body.bot) /\ body.guild = Absent)
           => decoded.ok /\ decoded.vote.receiver_id = ParseU64(body.bot.s).v
      /\ (Numeric(body.guild) /\ body.bot = Absent)
           => decoded.ok /\ decoded.vote.receiver_id = ParseU64(body.guild.s).v

\* C3 witness: a payload with guild = "70" and no bot decoded to receiver 70
C3_Witness ==
  /\ DecodeReturned
  /\ body.bot = Absent
  /\ body.guild = Str(<<Ch.d7, Ch.d0>>)
  /\ decoded.ok
  /\ decoded.vote.receiver_id = <<Ch.d7, Ch.d0>>

\* C4: each candidate containing '=' is split on its first '=' only: the key
\* is the text before it and the stored value is the percent-decoding of all
\* the text after it, a further '=' included.
C4_SplitOnFirstEqOnly ==
  QueryDecoded =>
    \A i \in 1..Len(Cands) :
      (/\ HasEq(Cands[i])
       /\ UrlDecode(AfterEq(Cands[i])).ok
       /\ \A j \in (i + 1)..Len(Cands) : KeyOf(Cands[j]) # KeyOf(Cands[i]))
        =>
          /\ KeyOf(Cands[i]) \in DOMAIN decoded.vote.query
          /\ decoded.vote.query[KeyOf(Cands[i])] = UrlDecode(AfterEq(Cands[i])).s

\* C5 as stated: the mapping never holds an entry for a key one of whose
\* values failed percent-decoding, other candidates of that key included.
C5_NoEntryForFailedKey ==
  QueryDecoded =>
    \A i \in 1..Len(Cands) :
      FailsDecoding(Cands[i]) => KeyOf(Cands[i]) \notin DOMAIN decoded.vote.query

\* C5 as amended: a candidate whose value fails percent-decoding is dropped.
\* Every entry of the mapping is the decoded value of a candidate of that key
\* that decoded, and the mapping is that of the query string without the
\* failing candidates.
C5_FailedPairDropped ==
  QueryDecoded =>
    /\ \A k \in DOMAIN decoded.vote.query :
         \E i \in 1..Len(Cands) :
           /\ Accepted(Cands[i])
           /\ KeyOf(Cands[i]) = k
           /\ decoded.vote.query[k] = UrlDecode(TakenValue(Cands[i])).s
    /\ decoded.vote.query = ParseQuery(JoinAmp(SelectSeq(Cands, NotFailingDecoding)))

\* C5 witness: "a=1&a=%ff" decoded to {a: "1"}
C5_Witness ==
  /\ QueryDecoded
  /\ Cands = <<(<<Ch.a, Ch.eq, Ch.d1>>), (<<Ch.a, Ch.eq, Ch.pct, Ch.f, Ch.f>>)>>
  /\ decoded.vote.query = (<<Ch.a>> :> <<Ch.d1>>)

\* C6: a key that occurs in several well-formed candidates has one entry,
\* whose value is the decoded value of its last such occurrence.
C6_LastWriteWins ==
  QueryDecoded =>
    /\ \A i \in 1..Len(Cands) :
         (/\ Accepted(Cands[i])
          /\ \A j \in (i + 1)..Len(Cands) :
               ~(Accepted(Cands[j]) /\ KeyOf(Cands[j]) = KeyOf(Cands[i])))
           =>
             /\ KeyOf(Cands[i]) \in DOMAIN decoded.vote.query
             /\ decoded.vote.query[KeyOf(Cands[i])]
                  = UrlDecode(TakenValue(Cands[i])).s
    /\ Cardinality(DOMAIN decoded.vote.query)
         = Cardinality({KeyOf(Cands[i]) : i \in {j \in 1..Len(Cands) : Accepted(Cands[j])}})

\* C6 witness: "x=1&x=2" decoded to {x: "2"}
C6_Witness ==
  /\ QueryDecoded
  /\ body.query.s = <<120, 61, 49, 38, 120, 61, 50>>
  /\ decoded.vote.query = (<<Ch.x>> :> <<Ch.d2>>)

\* C7: the query sub-parser never fails on a string: the decode succeeds, a
\* candidate without '=' adds no entry, and the rest is decoded as if the
\* candidates without '=' were not there.
C7_MalformedCandidatesSkipped ==
  (DecodeReturned /\ body.query.kind = "str" /\ OtherFieldsValid
     /\ DeserializeIsTest(body).ok)
    =>
      /\ decoded.ok
      /\ \A k \in DOMAIN decoded.vote.query :
           \E i \in 1..Len(Cands) : HasEq(Cands[i]) /\ KeyOf(Cands[i]) = k
      /\ decoded.vote.query = ParseQuery(JoinAmp(SelectSeq(Cands, HasEq)))

\* C7 witness: "a=1&bogus&c=3" decoded to {a: "1", c: "3"}
C7_Witness ==
  /\ QueryDecoded
  /\ body.query.s = <<97, 61, 49, 38, 98, 111, 103, 117, 115, 38, 99, 61, 51>>
  /\ decoded.vote.query = (<<Ch.a>> :> <<Ch.d1>> @@ <<Ch.c>> :> <<Ch.d3>>)

\* C8: a string type never makes the decode fail, and is_test is true
\* exactly when the type is the string "test".
C8_IsTestExactlyTest ==
  (DecodeReturned /\ body.type.kind = "str" /\ OtherFieldsValid)
    =>
      /\ decoded.ok
      /\ decoded.vote.is_test = (body.type.s = StrTest)

\* C8 witness: type = "Test" decoded with is_test = false
C8_Witness ==
  /\ DecodeReturned
  /\ body.type = Str(<<84, 101, 115, 116>>)
  /\ decoded.ok
  /\ decoded.vote.is_test = FALSE

\* C9: an absent isWeekend decodes to false and an absent or empty query to
\* the empty mapping, never to an error, the other fields decoding as they
\* do when the optional field is present.
C9_OptionalFieldsDefault ==
  (/\ DecodeReturned
   /\ DeserializeReceiverId(body).ok
   /\ DeserializeVoterId(body).ok
   /\ DeserializeIsTest(body).ok)
    =>
      /\ (body.isWeekend = Absent /\ body.query.kind \in {"absent", "str"})
           =>
             /\ decoded.ok
             /\ decoded.vote.is_weekend = FALSE
             /\ decoded.vote
                  = DeserializeVote([body EXCEPT !.isWeekend = Bool(FALSE)]).vote
      /\ ((body.query = Absent \/ body.query = Str(<<>>))
            /\ body.isWeekend.kind \in {"absent", "bool"})
           =>
             /\ decoded.ok
             /\ decoded.vote.query = EmptyMap
             /\ decoded.vote
                  = [DeserializeVote(
                       [body EXCEPT !.query = Str(<<Ch.a, Ch.eq, Ch.d1>>)]).vote
                     EXCEPT !.query = EmptyMap]

\* C9 witness: a payload without isWeekend and without query was decoded
C9_Witness ==
  /\ DecodeReturned
  /\ body.isWeekend = Absent
  /\ body.query = Absent
  /\ decoded.ok
  /\ decoded.vote.is_weekend = FALSE
  /\ decoded.vote.query = EmptyMap

\* C10: an IncomingVote is single use: authenticate is called on it at most
\* once, the call consumes it, and once consumed it stays consumed with the
\* one result (a Vote or nothing) it gave.
C10_SingleUse ==
  [][\A i \in ReqIds :
       /\ out[i].calls <= 1
       /\ out'[i].calls <= 1
       /\ (out[i].calls = 1) = (req[i].st = "moved")
       /\ (out'[i].calls = 1) = (req'[i].st = "moved")
       /\ req[i].st = "moved" => (req'[i].st = "moved" /\ out'[i] = out[i])]_vars

\* C10 witness: a request was authenticated, gave its Vote, and is consumed
C10_Witness ==
  /\ req[1].st = "moved"
  /\ out[1].calls = 1
  /\ out[1].result.some

====
